---- MODULE Spec2Model ----
(***************************************************************************)
(* Model of Sync/sync.py: the synchronisation run of main() together with  *)
(* DrushWorker (version detection, remote drush commands, files backup)    *)
(* and the AcquiaWorker environment lookup.                                *)
(*                                                                         *)
(* Python strings are modelled as sequences of one-character strings, so   *)
(* that startswith, the regular expression of find_drupal_version and the  *)
(* strftime formatting are computed, not assumed.  Every call that leaves  *)
(* the process (prompt, API call, ssh command, error log) is appended to   *)
(* the sequence `calls` together with its outcome.                         *)
(*                                                                         *)
(* The comparisons written with `is` in the source (len(sys.argv) is not   *)
(* 4, sync_choice is '3', ...) compare small integers and one-character    *)
(* strings, which CPython keeps as unique objects; every string reaching   *)
(* such a comparison has passed `in ('1','2','3')` / `in ('1','2')`, so    *)
(* identity coincides with equality there and is modelled as equality.     *)
(***************************************************************************)
EXTENDS Integers, Sequences, FiniteSets, TLC

VARIABLES pc, argc, sub, source, dest, choice, sync_choice, sync_both,
          DB_prod_sync_choice, output, error, drupal_version, commands,
          idx, now, calls, exit_status, raised

vars == <<pc, argc, sub, source, dest, choice, sync_choice, sync_both,
          DB_prod_sync_choice, output, error, drupal_version, commands,
          idx, now, calls, exit_status, raised>>

\* ---------------------------------------------------------------- bounds
\* longest stdout of the status query that is enumerated
MaxOutLen == 3
\* largest number of seconds the clock advances between two readings
MaxTick == 1

\* ---------------------------------------------------------------- inputs
ArgCounts == {3, 4, 5}
Subs == {"acme"}
Sources == {"dev"}
Dests == {"stage", "prod", "stage2"}
ConfirmAnswers == {"y", "Y", "n", ""}
ScopeAnswers == {"1", "2", "3", "4", ""}
ModeAnswers == {"1", "2", "3", ""}
OutChars == {"7", "8", "9", ".", "\n"}
\* seconds since 2024-01-01 00:00:00 at which a run may start
StartTimes == {43200, 43259}

Digits == <<"0", "1", "2", "3", "4", "5", "6", "7", "8", "9">>
DigitChars == {Digits[k] : k \in 1..10}

\* all sequences over S of length at most n
RECURSIVE SeqsUpTo(_, _)
SeqsUpTo(S, n) ==
    IF n = 0 THEN {<<>>}
    ELSE LET shorter == SeqsUpTo(S, n - 1)
         IN  shorter \cup {Append(s, c) : s \in {t \in shorter : Len(t) = n - 1}, c \in S}

Outputs == SeqsUpTo(OutChars, MaxOutLen)

\* ------------------------------------------------------- pure functions
\* str.startswith with a one-character prefix
startswith(s, c) == Len(s) >= 1 /\ s[1] = c

\* re.search(r'\d.+', s): positions where a digit is followed by at least
\* one character other than a newline
MatchStarts(s) ==
    {k \in 1..(Len(s) - 1) : s[k] \in DigitChars /\ s[k + 1] # "\n"}

\* last position of the greedy `.+` that starts after position k
MatchEnd(s, k) ==
    CHOOSE j \in (k + 1)..Len(s) :
        /\ \A m \in (k + 1)..j : s[m] # "\n"
        /\ (j = Len(s) \/ s[j + 1] = "\n")

\* the matched text; the empty sequence stands for None (a match has at
\* least two characters)
re_search(s) ==
    IF MatchStarts(s) = {} THEN <<>>
    ELSE LET k == CHOOSE a \in MatchStarts(s) : \A b \in MatchStarts(s) : a <= b
         IN  SubSeq(s, k, MatchEnd(s, k))

\* n written with exactly w decimal digits (strftime zero padding)
RECURSIVE Pad(_, _)
Pad(n, w) == IF w = 0 THEN <<>> ELSE Append(Pad(n \div 10, w - 1), Digits[(n % 10) + 1])

\* strftime with the format "%Y%m%d%H%M%S"
strftime_WithSeconds(t) ==
    Pad(2024, 4) \o Pad(1, 2) \o Pad(1 + (t \div 86400), 2)
      \o Pad((t % 86400) \div 3600, 2) \o Pad((t % 3600) \div 60, 2) \o Pad(t % 60, 2)

\* datetime.strftime(t, "%Y%m%d%H%M") for t seconds into January 2024
strftime(t) ==
    Pad(2024, 4) \o Pad(1, 2) \o Pad(1 + (t \div 86400), 2)
      \o Pad((t % 86400) \div 3600, 2) \o Pad((t % 3600) \div 60, 2)

\* '{sub}.{dest}-{date}.sql'
db_filename(s, e, t) == <<s, ".", e, "-">> \o strftime(t) \o <<".sql">>
\* '{sub}.{env}-files-{date}.zip'
files_filename(s, e, t) == <<s, ".", e, "-files-">> \o strftime(t) \o <<".zip">>
\* /mnt/gfs/{sub}.{env}/custombackups
backup_dir(s, e) == <<"/mnt/gfs/", s, ".", e, "/custombackups">>

\* the drush commands of main()
SqlDump(s, e, t) == <<"sql-dump --result-file=">> \o backup_dir(s, e) \o <<"/">> \o db_filename(s, e, t)
SqlSanitize == <<"sql-sanitize -y">>
RrBazooka == <<"rr --fire-bazooka">>
Cr == <<"cr">>
\* the shell command of files_backup
ZipCmd(s, e, t) == <<"zip -r ">> \o backup_dir(s, e) \o <<"/">> \o files_filename(s, e, t)
MkdirCmd(s, e) == <<"mkdir -p ">> \o backup_dir(s, e)

Unbound == [bound |-> FALSE, val |-> <<>>]
Bound(l) == [bound |-> TRUE, val |-> l]

\* SelectCommands with the sanitize command kept in full-copy mode
SelectCommands_SanitizeAlways(mode, v, old) ==
    LET c7 == IF startswith(v, "7") THEN Bound(<<SqlSanitize, RrBazooka>>) ELSE old
    IN  IF startswith(v, "8") THEN Bound(<<SqlSanitize, Cr>>) ELSE c7

\* SelectCommands with the cache clear listed before the sanitize command
SelectCommands_CacheClearFirst(mode, v, old) ==
    LET c7 == IF startswith(v, "7")
              THEN Bound(IF mode = "1" THEN <<RrBazooka, SqlSanitize>> ELSE <<RrBazooka>>)
              ELSE old
    IN  IF startswith(v, "8")
        THEN Bound(IF mode = "1" THEN <<Cr, SqlSanitize>> ELSE <<Cr>>)
        ELSE c7

\* SelectCommands with `commands` starting as an empty list
SelectCommands_EmptyDefault(mode, v, old) ==
    LET c7 == IF startswith(v, "7")
              THEN Bound(IF mode = "1" THEN <<SqlSanitize, RrBazooka>> ELSE <<RrBazooka>>)
              ELSE Bound(<<>>)
    IN  IF startswith(v, "8")
        THEN Bound(IF mode = "1" THEN <<SqlSanitize, Cr>> ELSE <<Cr>>)
        ELSE c7

\* `commands` after the two `if drupal_version.startswith(..)` statements
\* of the sanitize block (mode "1") or the full-copy block (mode "2")
SelectCommands(mode, v, old) ==
    LET c7 == IF startswith(v, "7")
              THEN Bound(IF mode = "1" THEN <<SqlSanitize, RrBazooka>> ELSE <<RrBazooka>>)
              ELSE old
    IN  IF startswith(v, "8")
        THEN Bound(IF mode = "1" THEN <<SqlSanitize, Cr>> ELSE <<Cr>>)
        ELSE c7

\* the cache-clear commands of the files branch, in the order of the two ifs
FilesCommands(v) ==
    (IF startswith(v, "7") THEN <<RrBazooka>> ELSE <<>>)
      \o (IF startswith(v, "8") THEN <<Cr>> ELSE <<>>)

\* ------------------------------------------------------------- plumbing
Ev(op, arg, ok) == [op |-> op, arg |-> arg, ok |-> ok]

\* quit() / exit(): SystemExit without a code
Quit(evs) ==
    /\ pc' = "exited"
    /\ exit_status' = 0
    /\ raised' = "SystemExit"
    /\ calls' = calls \o evs

\* an exception nobody catches: traceback and exit status 1
Crash(exc, evs) ==
    /\ pc' = "exited"
    /\ exit_status' = 1
    /\ raised' = exc
    /\ calls' = calls \o evs

Goto(l, evs) ==
    /\ pc' = l
    /\ calls' = calls \o evs
    /\ UNCHANGED <<exit_status, raised>>

\* AfterDb without the scope test of line 195
AfterDb_Always(sc, both) == "files_backup"

\* where main() continues after the database block
AfterDb(sc, both) == IF sc = "2" \/ both THEN "files_backup" ELSE "done"
\* where main() continues after the sanitization-mode answer a was accepted
AfterMode(a, sc, both) == IF a = "1" \/ a = "2" THEN "db_copy" ELSE AfterDb(sc, both)
\* AfterMkdir without the `or sync_both` of line 148
AfterMkdir_NoBoth(sc, both) == IF sc = "1" THEN "db_backup" ELSE AfterDb(sc, both)

\* where main() continues after the mkdir
AfterMkdir(sc, both) == IF sc = "1" \/ both THEN "db_backup" ELSE AfterDb(sc, both)

Init ==
    /\ pc = "start"
    /\ argc \in ArgCounts
    /\ sub \in Subs
    /\ source \in Sources
    /\ dest \in Dests
    /\ choice = "unset"
    /\ sync_choice = "unset"
    /\ sync_both = FALSE
    /\ DB_prod_sync_choice = "unset"
    /\ output = <<>>
    /\ error = FALSE
    /\ drupal_version = <<>>
    /\ commands = Unbound
    /\ idx = 0
    /\ now \in StartTimes
    /\ calls = <<>>
    /\ exit_status = -1
    /\ raised = "none"

\* CheckArgs that never asks for the production confirmation
CheckArgs_NoConfirm ==
    /\ pc = "start"
    /\ IF argc # 4
       THEN Quit(<<Ev("logging.error", <<"usage">>, TRUE)>>)
       ELSE Goto("scope", <<>>)
    /\ UNCHANGED <<argc, sub, source, dest, choice, sync_choice, sync_both,
                   DB_prod_sync_choice, output, error, drupal_version, commands, idx, now>>

\* lines 101-106
CheckArgs ==
    /\ pc = "start"
    /\ IF argc # 4
       THEN Quit(<<Ev("logging.error", <<"usage">>, TRUE)>>)
       ELSE Goto(IF dest = "prod" THEN "confirm" ELSE "scope", <<>>)
    /\ UNCHANGED <<argc, sub, source, dest, choice, sync_choice, sync_both,
                   DB_prod_sync_choice, output, error, drupal_version, commands, idx, now>>

\* Confirm that stops only on the answer n
Confirm_OnlyNo ==
    /\ pc = "confirm"
    /\ \E a \in ConfirmAnswers :
         /\ choice' = a
         /\ IF a = "n"
            THEN Quit(<<Ev("input_confirm", <<a>>, TRUE)>>)
            ELSE Goto("scope", <<Ev("input_confirm", <<a>>, TRUE)>>)
    /\ UNCHANGED <<argc, sub, source, dest, sync_choice, sync_both,
                   DB_prod_sync_choice, output, error, drupal_version, commands, idx, now>>

\* lines 108-111
Confirm ==
    /\ pc = "confirm"
    /\ \E a \in ConfirmAnswers :
         /\ choice' = a
         /\ IF a \notin {"y", "Y"}
            THEN Quit(<<Ev("input_confirm", <<a>>, TRUE)>>)
            ELSE Goto("scope", <<Ev("input_confirm", <<a>>, TRUE)>>)
    /\ UNCHANGED <<argc, sub, source, dest, sync_choice, sync_both,
                   DB_prod_sync_choice, output, error, drupal_version, commands, idx, now>>

\* lines 113-120
ScopePrompt ==
    /\ pc = "scope"
    /\ \E a \in ScopeAnswers :
         /\ sync_choice' = a
         /\ IF a \notin {"1", "2", "3"}
            THEN Quit(<<Ev("input_scope", <<a>>, TRUE),
                        Ev("logging.error", <<"select 1, 2 or 3">>, TRUE)>>)
            ELSE Goto("resolve", <<Ev("input_scope", <<a>>, TRUE)>>)
    /\ UNCHANGED <<argc, sub, source, dest, choice, sync_both,
                   DB_prod_sync_choice, output, error, drupal_version, commands, idx, now>>

\* Resolve whose except clause logs the error and goes on
Resolve_NoQuit ==
    /\ pc = "resolve"
    /\ \E ok \in BOOLEAN :
         IF ok
         THEN Goto("version", <<Ev("resolve", <<sub, ".", dest>>, TRUE)>>)
         ELSE Goto("version", <<Ev("resolve", <<sub, ".", dest>>, FALSE),
                                Ev("logging.error", <<"name is not correct">>, TRUE)>>)
    /\ UNCHANGED <<argc, sub, source, dest, choice, sync_choice, sync_both,
                   DB_prod_sync_choice, output, error, drupal_version, commands, idx, now>>

\* lines 122-136: acquia_get_environment_details(sub, dest), HTTPError caught
Resolve ==
    /\ pc = "resolve"
    /\ \E ok \in BOOLEAN :
         IF ok
         THEN Goto("version", <<Ev("resolve", <<sub, ".", dest>>, TRUE)>>)
         ELSE Quit(<<Ev("resolve", <<sub, ".", dest>>, FALSE),
                     Ev("logging.error", <<"name is not correct">>, TRUE)>>)
    /\ UNCHANGED <<argc, sub, source, dest, choice, sync_choice, sync_both,
                   DB_prod_sync_choice, output, error, drupal_version, commands, idx, now>>

\* find_drupal_version that logs the error stream and still parses stdout
FindDrupalVersion_NoExit ==
    /\ pc = "version"
    /\ \E err \in BOOLEAN, out \in Outputs :
         /\ output' = out
         /\ error' = err
         /\ IF re_search(out) = <<>>
            THEN /\ Crash("AttributeError", <<Ev("find_drupal_version", out, FALSE)>>)
                 /\ UNCHANGED drupal_version
            ELSE /\ Goto("mkdir", <<Ev("find_drupal_version", out, TRUE)>>)
                 /\ drupal_version' = re_search(out)
    /\ UNCHANGED <<argc, sub, source, dest, choice, sync_choice, sync_both,
                   DB_prod_sync_choice, commands, idx, now>>

\* line 138 with lines 45-59: find_drupal_version; `error` is TRUE when the
\* status query wrote to its error stream
FindDrupalVersion ==
    /\ pc = "version"
    /\ \E err \in BOOLEAN, out \in Outputs :
         /\ output' = out
         /\ error' = err
         /\ IF err
            THEN /\ Quit(<<Ev("find_drupal_version", out, FALSE),
                           Ev("logging.error", <<"version not found">>, TRUE)>>)
                 /\ UNCHANGED drupal_version
            ELSE IF re_search(out) = <<>>
            THEN /\ Crash("AttributeError", <<Ev("find_drupal_version", out, FALSE)>>)
                 /\ UNCHANGED drupal_version
            ELSE /\ Goto("mkdir", <<Ev("find_drupal_version", out, TRUE)>>)
                 /\ drupal_version' = re_search(out)
    /\ UNCHANGED <<argc, sub, source, dest, choice, sync_choice, sync_both,
                   DB_prod_sync_choice, commands, idx, now>>

\* Mkdir with the directory created only when the database branch is taken
Mkdir_OnlyDb ==
    /\ pc = "mkdir"
    /\ \E ok \in BOOLEAN :
         IF sync_choice = "2"
         THEN /\ sync_both' = FALSE
              /\ Goto("files_backup", <<>>)
         ELSE IF ok
         THEN /\ sync_both' = (sync_choice = "3")
              /\ Goto(AfterMkdir(sync_choice, sync_choice = "3"),
                      <<Ev("mkdir", MkdirCmd(sub, dest), TRUE)>>)
         ELSE /\ UNCHANGED sync_both
              /\ Crash("CalledProcessError", <<Ev("mkdir", MkdirCmd(sub, dest), FALSE)>>)
    /\ UNCHANGED <<argc, sub, source, dest, choice, sync_choice,
                   DB_prod_sync_choice, output, error, drupal_version, commands, idx, now>>

\* lines 140-148: mkdir -p of the backup directory, then sync_both
Mkdir ==
    /\ pc = "mkdir"
    /\ \E ok \in BOOLEAN :
         IF ok
         THEN /\ sync_both' = (sync_choice = "3")
              /\ Goto(AfterMkdir(sync_choice, sync_choice = "3"),
                      <<Ev("mkdir", MkdirCmd(sub, dest), TRUE)>>)
         ELSE /\ UNCHANGED sync_both
              /\ Crash("CalledProcessError", <<Ev("mkdir", MkdirCmd(sub, dest), FALSE)>>)
    /\ UNCHANGED <<argc, sub, source, dest, choice, sync_choice,
                   DB_prod_sync_choice, output, error, drupal_version, commands, idx, now>>

\* DbBackup that ignores the exit status of the sql-dump
DbBackup_Unchecked ==
    /\ pc = "db_backup"
    /\ \E d \in 0..MaxTick, ok \in BOOLEAN :
         /\ now' = now + d
         /\ Goto("mode", <<Ev("drush", SqlDump(sub, dest, now + d), ok)>>)
    /\ UNCHANGED <<argc, sub, source, dest, choice, sync_choice, sync_both,
                   DB_prod_sync_choice, output, error, drupal_version, commands, idx>>

\* lines 150-155: sql-dump of the destination
DbBackup ==
    /\ pc = "db_backup"
    /\ \E d \in 0..MaxTick, ok \in BOOLEAN :
         /\ now' = now + d
         /\ IF ok
            THEN Goto("mode", <<Ev("drush", SqlDump(sub, dest, now + d), TRUE)>>)
            ELSE Crash("CalledProcessError", <<Ev("drush", SqlDump(sub, dest, now + d), FALSE)>>)
    /\ UNCHANGED <<argc, sub, source, dest, choice, sync_choice, sync_both,
                   DB_prod_sync_choice, output, error, drupal_version, commands, idx>>

\* ModePrompt that logs the error for a wrong answer and goes on
ModePrompt_NoQuit ==
    /\ pc = "mode"
    /\ \E a \in ModeAnswers :
         /\ DB_prod_sync_choice' = a
         /\ IF a \notin {"1", "2"}
            THEN Goto(AfterMode(a, sync_choice, sync_both),
                      <<Ev("input_mode", <<a>>, TRUE),
                        Ev("logging.error", <<"select 1 or 2">>, TRUE)>>)
            ELSE Goto(AfterMode(a, sync_choice, sync_both), <<Ev("input_mode", <<a>>, TRUE)>>)
    /\ UNCHANGED <<argc, sub, source, dest, choice, sync_choice, sync_both,
                   output, error, drupal_version, commands, idx, now>>

\* lines 157-164
ModePrompt ==
    /\ pc = "mode"
    /\ \E a \in ModeAnswers :
         /\ DB_prod_sync_choice' = a
         /\ IF a \notin {"1", "2"}
            THEN Quit(<<Ev("input_mode", <<a>>, TRUE),
                        Ev("logging.error", <<"select 1 or 2">>, TRUE)>>)
            ELSE Goto(AfterMode(a, sync_choice, sync_both), <<Ev("input_mode", <<a>>, TRUE)>>)
    /\ UNCHANGED <<argc, sub, source, dest, choice, sync_choice, sync_both,
                   output, error, drupal_version, commands, idx, now>>

\* lines 166-179 (mode '1') and 183-192 (mode '2'): the database copy, the
\* choice of `commands`, and the evaluation of the argument `commands`
DbCopy ==
    /\ pc = "db_copy"
    /\ \E ok \in BOOLEAN :
         IF ~ok
         THEN /\ Crash("HTTPError", <<Ev("db_copy", <<source, dest>>, FALSE)>>)
              /\ UNCHANGED <<commands, idx>>
         ELSE LET c == SelectCommands(DB_prod_sync_choice, drupal_version, commands)
              IN  /\ commands' = c
                  /\ IF c.bound
                     THEN /\ idx' = 1
                          /\ Goto(IF c.val = <<>> THEN AfterDb(sync_choice, sync_both) ELSE "db_cmds",
                                  <<Ev("db_copy", <<source, dest>>, TRUE)>>)
                     ELSE /\ UNCHANGED idx
                          /\ Crash("UnboundLocalError", <<Ev("db_copy", <<source, dest>>, TRUE)>>)
    /\ UNCHANGED <<argc, sub, source, dest, choice, sync_choice, sync_both,
                   DB_prod_sync_choice, output, error, drupal_version, now>>

\* drush_commands_list that ignores the exit status of each command
DrushCommandsList_Unchecked ==
    /\ pc = "db_cmds"
    /\ \E ok \in BOOLEAN :
         /\ idx' = idx + 1
         /\ Goto(IF idx = Len(commands.val) THEN AfterDb(sync_choice, sync_both) ELSE "db_cmds",
                 <<Ev("drush", commands.val[idx], ok)>>)
    /\ UNCHANGED <<argc, sub, source, dest, choice, sync_choice, sync_both,
                   DB_prod_sync_choice, output, error, drupal_version, commands, now>>

\* lines 74-80 with 61-72: one drush_command of drush_commands_list
DrushCommandsList ==
    /\ pc = "db_cmds"
    /\ \E ok \in BOOLEAN :
         IF ~ok
         THEN /\ Crash("CalledProcessError", <<Ev("drush", commands.val[idx], FALSE)>>)
              /\ UNCHANGED idx
         ELSE /\ idx' = idx + 1
              /\ Goto(IF idx = Len(commands.val) THEN AfterDb(sync_choice, sync_both) ELSE "db_cmds",
                      <<Ev("drush", commands.val[idx], TRUE)>>)
    /\ UNCHANGED <<argc, sub, source, dest, choice, sync_choice, sync_both,
                   DB_prod_sync_choice, output, error, drupal_version, commands, now>>

\* files_backup that ignores the exit status of the zip
FilesBackup_Unchecked ==
    /\ pc = "files_backup"
    /\ \E d \in 0..MaxTick, ok \in BOOLEAN :
         /\ now' = now + d
         /\ Goto("copy_files", <<Ev("zip", ZipCmd(sub, dest, now + d), ok)>>)
    /\ UNCHANGED <<argc, sub, source, dest, choice, sync_choice, sync_both,
                   DB_prod_sync_choice, output, error, drupal_version, commands, idx>>

\* line 196 with lines 82-94: files_backup
FilesBackup ==
    /\ pc = "files_backup"
    /\ \E d \in 0..MaxTick, ok \in BOOLEAN :
         /\ now' = now + d
         /\ IF ok
            THEN Goto("copy_files", <<Ev("zip", ZipCmd(sub, dest, now + d), TRUE)>>)
            ELSE Crash("CalledProcessError", <<Ev("zip", ZipCmd(sub, dest, now + d), FALSE)>>)
    /\ UNCHANGED <<argc, sub, source, dest, choice, sync_choice, sync_both,
                   DB_prod_sync_choice, output, error, drupal_version, commands, idx>>

\* lines 197-198
CopyFiles ==
    /\ pc = "copy_files"
    /\ \E ok \in BOOLEAN :
         /\ IF ok
            THEN /\ idx' = 1
                 /\ Goto(IF FilesCommands(drupal_version) = <<>> THEN "done" ELSE "files_cmds",
                         <<Ev("copy_files", <<source, dest>>, TRUE)>>)
            ELSE /\ UNCHANGED idx
                 /\ Crash("HTTPError", <<Ev("copy_files", <<source, dest>>, FALSE)>>)
    /\ UNCHANGED <<argc, sub, source, dest, choice, sync_choice, sync_both,
                   DB_prod_sync_choice, output, error, drupal_version, commands, now>>

\* lines 199-202: the cache clear of the files branch
FilesCacheClear ==
    /\ pc = "files_cmds"
    /\ \E ok \in BOOLEAN :
         IF ~ok
         THEN /\ Crash("CalledProcessError", <<Ev("drush", FilesCommands(drupal_version)[idx], FALSE)>>)
              /\ UNCHANGED idx
         ELSE /\ idx' = idx + 1
              /\ Goto(IF idx = Len(FilesCommands(drupal_version)) THEN "done" ELSE "files_cmds",
                      <<Ev("drush", FilesCommands(drupal_version)[idx], TRUE)>>)
    /\ UNCHANGED <<argc, sub, source, dest, choice, sync_choice, sync_both,
                   DB_prod_sync_choice, output, error, drupal_version, commands, now>>

\* main() returns: the interpreter exits with status 0
Return ==
    /\ pc = "done"
    /\ pc' = "exited"
    /\ exit_status' = 0
    /\ UNCHANGED <<argc, sub, source, dest, choice, sync_choice, sync_both,
                   DB_prod_sync_choice, output, error, drupal_version, commands,
                   idx, now, calls, raised>>

Next ==
    \/ CheckArgs
    \/ Confirm
    \/ ScopePrompt
    \/ Resolve
    \/ FindDrupalVersion
    \/ Mkdir
    \/ DbBackup
    \/ ModePrompt
    \/ DbCopy
    \/ DrushCommandsList
    \/ FilesBackup
    \/ CopyFiles
    \/ FilesCacheClear
    \/ Return

Spec == Init /\ [][Next]_vars

TypeOK ==
    /\ pc \in {"start", "confirm", "scope", "resolve", "version", "mkdir",
               "db_backup", "mode", "db_copy", "db_cmds", "files_backup",
               "copy_files", "files_cmds", "done", "exited"}
    /\ exit_status \in {-1, 0, 1}
    /\ (pc = "exited") = (exit_status # -1)

\* ------------------------------------------------- reading the call log
HasOp(o) == \E k \in 1..Len(calls) : calls[k].op = o
\* position of the first call of operation o, 0 when there is none
FirstIdx(o) ==
    IF HasOp(o) THEN CHOOSE k \in 1..Len(calls) :
                        calls[k].op = o /\ \A j \in 1..(k - 1) : calls[j].op # o
    ELSE 0
IsDrush(e) == e.op = "drush"
IsDump(e) == e.op = "drush" /\ e.arg[1] = "sql-dump --result-file="
IsCmd(e, c) == e.op = "drush" /\ e.arg = c
IsSanitize(e) == IsCmd(e, <<"sql-sanitize -y">>)
IsCacheClear(e) == IsCmd(e, <<"rr --fire-bazooka">>) \/ IsCmd(e, <<"cr">>)
IsPostCopy(e) == IsSanitize(e) \/ IsCacheClear(e)
ResolvedBefore(k) == \E j \in 1..(k - 1) : calls[j].op = "resolve" /\ calls[j].ok
DumpOkBefore(k) == \E j \in 1..(k - 1) : IsDump(calls[j]) /\ calls[j].ok
ZipOkBefore(k) == \E j \in 1..(k - 1) : calls[j].op = "zip" /\ calls[j].ok
CopyFilesBefore(k) == \E j \in 1..(k - 1) : calls[j].op = "copy_files"
Args(q) == [k \in 1..Len(q) |-> q[k].arg]
IsPrefix(p, q) == Len(p) <= Len(q) /\ SubSeq(q, 1, Len(p)) = p
\* the run returned from main() normally
Returned == pc = "exited" /\ raised = "none"
VersionIs(c) == Len(drupal_version) >= 1 /\ drupal_version[1] = c
KnownVersion == VersionIs("7") \/ VersionIs("8")

\* drush calls issued after the database copy and before the copy-files call
DbPost ==
    LET c == FirstIdx("db_copy")
        f == IF HasOp("copy_files") THEN FirstIdx("copy_files") ELSE Len(calls) + 1
    IN  IF c = 0 THEN <<>> ELSE SelectSeq(SubSeq(calls, c + 1, f - 1), IsDrush)
\* drush calls issued after the copy-files call
FilesPost ==
    LET f == FirstIdx("copy_files")
    IN  IF f = 0 THEN <<>> ELSE SelectSeq(SubSeq(calls, f + 1, Len(calls)), IsDrush)
\* the database branch ran to its end
DbBranchDone ==
    /\ HasOp("db_copy")
    /\ \/ pc \in {"files_backup", "copy_files", "files_cmds", "done"}
       \/ Returned
       \/ HasOp("zip")
\* the files branch ran to its end
FilesBranchDone == HasOp("copy_files") /\ (pc = "done" \/ Returned)

\* C1: the database copy and sql-sanitize are issued only after the
\* destination was resolved and the sql-dump backup succeeded; copy-files
\* only after the destination was resolved and the zip backup succeeded;
\* every cache clear only after the backup of its own branch succeeded.
C1_BackupBeforeDestructive ==
    \A k \in 1..Len(calls) :
        LET e == calls[k]
        IN  /\ (e.op = "db_copy" \/ IsSanitize(e)) => (ResolvedBefore(k) /\ DumpOkBefore(k))
            /\ e.op = "copy_files" => (ResolvedBefore(k) /\ ZipOkBefore(k))
            /\ IsCacheClear(e) =>
                 IF CopyFilesBefore(k) THEN ZipOkBefore(k) ELSE DumpOkBefore(k)

C1_Witness ==
    /\ Returned
    /\ sync_choice = "3"
    /\ DB_prod_sync_choice = "1"
    /\ \E k \in 1..Len(calls) : IsSanitize(calls[k])
    /\ Len(FilesPost) = 1 /\ IsCacheClear(FilesPost[1])

\* C2: with destination prod the confirmation prompt is the first call of
\* the run, and after any answer other than y / Y the run has ended with no
\* resolver call, no remote command and no copy call.
C2_ProdConfirmFirst ==
    (dest = "prod" /\ argc = 4) =>
        /\ pc \notin {"start", "confirm"} => (Len(calls) >= 1 /\ calls[1].op = "input_confirm")
        /\ (choice # "unset" /\ choice \notin {"y", "Y"}) =>
             /\ pc = "exited"
             /\ \A k \in 1..Len(calls) : calls[k].op = "input_confirm"

C2_Witness ==
    /\ dest = "prod"
    /\ choice = ""
    /\ pc = "exited"
    /\ Len(calls) = 1

\* the post-copy command table of the database branch, for a version
\* starting with major digit m
ExpectedDb(m, mode) ==
    IF m = "7" /\ mode = "1" THEN << <<"sql-sanitize -y">>, <<"rr --fire-bazooka">> >>
    ELSE IF m = "7" /\ mode = "2" THEN << <<"rr --fire-bazooka">> >>
    ELSE IF m = "8" /\ mode = "1" THEN << <<"sql-sanitize -y">>, <<"cr">> >>
    ELSE IF m = "8" /\ mode = "2" THEN << <<"cr">> >>
    ELSE <<>>
ExpectedFiles(m) ==
    IF m = "7" THEN << <<"rr --fire-bazooka">> >>
    ELSE IF m = "8" THEN << <<"cr">> >>
    ELSE <<>>

\* C3: for versions 7 and 8 the post-copy commands of the database branch
\* and of the files branch are exactly those of the table (a failing command
\* cuts the list short), and no other post-copy command is sent.
C3_PostCopyCommandTable ==
    KnownVersion =>
        LET m == drupal_version[1]
        IN  /\ IsPrefix(Args(DbPost), ExpectedDb(m, DB_prod_sync_choice))
            /\ DbBranchDone => Args(DbPost) = ExpectedDb(m, DB_prod_sync_choice)
            /\ IsPrefix(Args(FilesPost), ExpectedFiles(m))
            /\ FilesBranchDone => Args(FilesPost) = ExpectedFiles(m)
            /\ \A k \in 1..Len(calls) :
                 /\ (IsDrush(calls[k]) /\ ~IsDump(calls[k])) =>
                      \E j \in 1..(k - 1) : calls[j].op \in {"db_copy", "copy_files"}
                 /\ IsSanitize(calls[k]) =>
                      (DB_prod_sync_choice = "1" /\ ~CopyFilesBefore(k))

C3_Witness ==
    /\ Returned
    /\ VersionIs("8")
    /\ sync_choice = "3"
    /\ DB_prod_sync_choice = "2"
    /\ Args(DbPost) = << <<"cr">> >>
    /\ Args(FilesPost) = << <<"cr">> >>

\* the calls of the database branch: everything up to the files backup
DbSteps ==
    LET f == IF HasOp("zip") THEN FirstIdx("zip") ELSE Len(calls) + 1
        IsDbStep(e) == e.op \in {"drush", "input_mode", "db_copy"}
    IN  SelectSeq(SubSeq(calls, 1, f - 1), IsDbStep)
DrushCalls == SelectSeq(calls, IsDrush)
CountOp(o) == Cardinality({k \in 1..Len(calls) : calls[k].op = o})

\* C4: the database branch issues, in this order, the sql-dump, the mode
\* prompt, the database copy and then the post-copy commands; for dev ->
\* stage, scope database, mode sanitize, version 8 the drush commands are
\* exactly sql-dump, sql-sanitize -y, cr, with the one database copy between
\* the dump and the sanitize and no files backup or copy-files call.
C4_DatabaseBranchOrder ==
    /\ \A k \in 1..Len(DbSteps) :
         /\ k = 1 => IsDump(DbSteps[k])
         /\ k = 2 => DbSteps[k].op = "input_mode"
         /\ k = 3 => DbSteps[k].op = "db_copy"
         /\ k >= 4 => IsPostCopy(DbSteps[k])
         /\ k < Len(DbSteps) => DbSteps[k].ok
    /\ (KnownVersion /\ DbBranchDone) =>
         Args(SubSeq(DbSteps, 4, Len(DbSteps))) = ExpectedDb(drupal_version[1], DB_prod_sync_choice)
    /\ (source = "dev" /\ dest = "stage" /\ sync_choice = "1"
          /\ DB_prod_sync_choice = "1" /\ VersionIs("8") /\ Returned) =>
         /\ Len(DrushCalls) = 3
         /\ IsDump(DrushCalls[1])
         /\ SubSeq(DrushCalls[1].arg, 2, 6) = <<"/mnt/gfs/", "acme", ".", "stage", "/custombackups">>
         /\ DrushCalls[2].arg = <<"sql-sanitize -y">>
         /\ DrushCalls[3].arg = <<"cr">>
         /\ CountOp("db_copy") = 1
         /\ DumpOkBefore(FirstIdx("db_copy"))
         /\ \E k \in (FirstIdx("db_copy") + 1)..Len(calls) : IsSanitize(calls[k])
         /\ ~HasOp("zip") /\ ~HasOp("copy_files")

C4_Witness ==
    /\ source = "dev" /\ dest = "stage" /\ sync_choice = "1"
    /\ DB_prod_sync_choice = "1" /\ VersionIs("8") /\ Returned
    /\ Len(DbSteps) = 5

RemoteOps == {"find_drupal_version", "mkdir", "drush", "zip", "db_copy", "copy_files"}

\* C5: after a failed lookup of the destination the run has ended and no
\* version detection, mkdir, backup, copy or post-copy command was issued.
C5_ResolveFailureAborts ==
    (\E k \in 1..Len(calls) : calls[k].op = "resolve" /\ ~calls[k].ok) =>
        /\ pc = "exited"
        /\ \A k \in 1..Len(calls) : calls[k].op \notin RemoteOps

C5_Witness ==
    /\ dest = "stage2"
    /\ pc = "exited"
    /\ \E k \in 1..Len(calls) : calls[k].op = "resolve" /\ ~calls[k].ok

\* C6: with scope 3 the files backup is issued only when the dump, the mode
\* prompt, the database copy and all post-copy commands of the database
\* branch have completed, and no database-branch call follows it.
C6_DatabaseBranchBeforeFilesBranch ==
    sync_choice = "3" =>
        \A k \in 1..Len(calls) :
            calls[k].op = "zip" =>
                /\ DumpOkBefore(k)
                /\ \E j \in 1..(k - 1) : calls[j].op = "input_mode"
                /\ \E j \in 1..(k - 1) : calls[j].op = "db_copy" /\ calls[j].ok
                /\ LET post == SelectSeq(SubSeq(calls, FirstIdx("db_copy") + 1, k - 1), IsDrush)
                   IN  /\ Args(post) = ExpectedDb(drupal_version[1], DB_prod_sync_choice)
                       /\ \A j \in 1..Len(post) : post[j].ok
                /\ \A j \in (k + 1)..Len(calls) :
                     /\ calls[j].op \notin {"input_mode", "db_copy"}
                     /\ ~IsDump(calls[j]) /\ ~IsSanitize(calls[j])
                     /\ IsDrush(calls[j]) => CopyFilesBefore(j)

C6_Witness ==
    /\ sync_choice = "3"
    /\ Returned
    /\ HasOp("zip") /\ HasOp("copy_files")
    /\ Len(DbPost) = 2 /\ Len(FilesPost) = 1

\* C7: every abort caused by operator input (wrong argument count, scope
\* answer outside 1..3, mode answer outside 1..2) ends with an error message
\* and a non-zero exit status.
C7_InputAbortNonZeroExit ==
    (pc = "exited" /\ (\/ argc # 4
                       \/ sync_choice \notin {"unset", "1", "2", "3"}
                       \/ DB_prod_sync_choice \notin {"unset", "1", "2"})) =>
        /\ calls[Len(calls)].op = "logging.error"
        /\ exit_status # 0

\* C8: with a version starting with neither 7 nor 8 no post-copy command is
\* issued, the skipped step raises no error, and the run continues (under
\* scope 3 the files branch follows the database copy).
C8_UnknownVersionSkipsSilently ==
    (drupal_version # <<>> /\ ~KnownVersion) =>
        /\ \A k \in 1..Len(calls) : ~IsPostCopy(calls[k])
        /\ raised # "UnboundLocalError"
        /\ (pc = "exited" /\ sync_choice = "3"
              /\ \E k \in 1..Len(calls) : calls[k].op = "db_copy" /\ calls[k].ok) => HasOp("zip")

\* C9: a mode answer outside 1..2 ends the run right after the prompt: the
\* dump was taken and nothing but the error message follows the prompt (no
\* copy, no post-copy command, no files-branch call, no removal); a scope
\* answer outside 1..3 ends the run before any resolver, remote or API call.
C9_InvalidSelectionAborts ==
    /\ DB_prod_sync_choice \notin {"unset", "1", "2"} =>
         /\ pc = "exited"
         /\ \E k \in 1..Len(calls) : IsDump(calls[k]) /\ calls[k].ok
         /\ \A k \in 1..Len(calls) :
              /\ calls[k].op \notin {"db_copy", "zip", "copy_files"}
              /\ ~IsPostCopy(calls[k])
         /\ Len(calls) >= 2
         /\ calls[Len(calls) - 1].op = "input_mode"
         /\ calls[Len(calls)].op = "logging.error"
    /\ sync_choice \notin {"unset", "1", "2", "3"} =>
         /\ pc = "exited"
         /\ \A k \in 1..Len(calls) : calls[k].op \notin (RemoteOps \cup {"resolve"})

C9_Witness ==
    /\ sync_choice = "3"
    /\ DB_prod_sync_choice = ""
    /\ pc = "exited"

HasDigit(s) == \E k \in 1..Len(s) : s[k] \in DigitChars

\* C10: when the status query wrote to its error stream or its output has no
\* digit, the run has ended without a version and without any mkdir, backup,
\* copy or post-copy command; a version, once set, is text of the output.
C10_VersionDetectionFatal ==
    /\ (HasOp("find_drupal_version") /\ (error \/ ~HasDigit(output))) =>
         /\ pc = "exited"
         /\ drupal_version = <<>>
         /\ \A k \in 1..Len(calls) : calls[k].op \notin (RemoteOps \ {"find_drupal_version"})
    /\ drupal_version # <<>> =>
         /\ drupal_version[1] \in DigitChars
         /\ \E a \in 1..Len(output), b \in 1..Len(output) : SubSeq(output, a, b) = drupal_version

C10_Witness ==
    /\ HasOp("find_drupal_version")
    /\ ~error
    /\ output = <<".", ".">>
    /\ raised = "AttributeError"

\* C11: drush_commands_list issues the commands of its list in list order,
\* one call each; every command before a failing one succeeded and was
\* issued once, and nothing of the list is issued after a failing command.
C11_CommandsListStopsAtFirstFailure ==
    commands.bound =>
        /\ IsPrefix(Args(DbPost), commands.val)
        /\ \A k \in 1..Len(DbPost) : k < Len(DbPost) => DbPost[k].ok
        /\ pc = "db_cmds" => (Len(DbPost) = idx - 1 /\ \A k \in 1..Len(DbPost) : DbPost[k].ok)
        /\ (Len(DbPost) >= 1 /\ ~DbPost[Len(DbPost)].ok) =>
             (pc = "exited" /\ raised = "CalledProcessError")
        /\ DbBranchDone => (Args(DbPost) = commands.val /\ \A k \in 1..Len(DbPost) : DbPost[k].ok)

C11_Witness ==
    /\ commands.bound
    /\ Len(commands.val) = 2
    /\ Len(DbPost) = 1
    /\ ~DbPost[1].ok
    /\ pc = "exited"

\* the twelve characters YYYYMMDDHHMM of minute m of 2024-01-01
MinuteStamp(m) ==
    LET h == m \div 60
        mi == m % 60
        D(n) == Digits[n + 1]
    IN  <<"2", "0", "2", "4", "0", "1", "0", "1", D(h \div 10), D(h % 10), D(mi \div 10), D(mi % 10)>>

\* C12: the artifact names depend only on subscription, environment, kind
\* and the minute of the clock reading: <sub>.<env>-<YYYYMMDDHHMM>.sql and
\* <sub>.<env>-files-<YYYYMMDDHHMM>.zip under custombackups of <sub>.<env>;
\* acme / prod at 12:00 of 2024-01-01 gives acme.prod-202401011200.sql.
C12_BackupArtifactNames ==
    /\ pc = "mode" =>
         LET e == calls[Len(calls)]
         IN  /\ e.arg = <<"sql-dump --result-file=", "/mnt/gfs/", sub, ".", dest, "/custombackups", "/">>
                          \o <<sub, ".", dest, "-">> \o MinuteStamp(now \div 60) \o <<".sql">>
             /\ (sub = "acme" /\ dest = "prod" /\ now \div 60 = 720) =>
                  SubSeq(e.arg, 8, Len(e.arg)) =
                    <<"acme", ".", "prod", "-", "2", "0", "2", "4", "0", "1", "0", "1",
                      "1", "2", "0", "0", ".sql">>
    /\ pc = "copy_files" =>
         calls[Len(calls)].arg =
            <<"zip -r ", "/mnt/gfs/", sub, ".", dest, "/custombackups", "/">>
              \o <<sub, ".", dest, "-files-">> \o MinuteStamp(now \div 60) \o <<".zip">>

C12_Witness ==
    /\ pc = "mode"
    /\ dest = "prod"
    /\ now = 43259

\* C13: the destination is validated through the resolver first, then the
\* confirmation is requested, then the scope is prompted for: no prompt is
\* issued before the resolver call, and a run whose destination does not
\* resolve has asked for neither confirmation nor scope.
C13_ResolveBeforePrompts ==
    /\ \A k \in 1..Len(calls) :
         calls[k].op \in {"input_confirm", "input_scope"} =>
             \E j \in 1..(k - 1) : calls[j].op = "resolve"
    /\ (\E k \in 1..Len(calls) : calls[k].op = "resolve" /\ ~calls[k].ok) =>
         (~HasOp("input_confirm") /\ ~HasOp("input_scope"))

\* C13 as amended: the confirmation (destination prod) is requested first,
\* then the scope is prompted for, then the destination is validated through
\* the resolver; every resolver call follows an accepted scope answer and,
\* for prod, an affirmative confirmation, and no prompt for confirmation or
\* scope follows it.
C13_PromptsBeforeResolve ==
    \A k \in 1..Len(calls) :
        calls[k].op = "resolve" =>
            /\ \E j \in 1..(k - 1) :
                 /\ calls[j].op = "input_scope"
                 /\ calls[j].arg \in {<<"1">>, <<"2">>, <<"3">>}
                 /\ dest = "prod" =>
                      \E i \in 1..(j - 1) :
                          calls[i].op = "input_confirm" /\ calls[i].arg \in {<<"y">>, <<"Y">>}
            /\ \A j \in (k + 1)..Len(calls) :
                 calls[j].op \notin {"input_confirm", "input_scope"}

C13_Witness ==
    /\ dest = "prod"
    /\ pc = "exited"
    /\ Len(calls) = 4
    /\ calls[1].op = "input_confirm"
    /\ calls[2].op = "input_scope"
    /\ calls[3].op = "resolve" /\ ~calls[3].ok

\* C14: a failing backup, copy or post-copy command is the last call of the
\* run: the run has ended, the failing call is not repeated, nothing is
\* issued after it, and under scope 3 a failure in the database branch
\* leaves the files branch without any call.
C14_FailureEndsRun ==
    \A k \in 1..Len(calls) :
        (calls[k].op \in {"drush", "zip", "db_copy", "copy_files"} /\ ~calls[k].ok) =>
            /\ pc = "exited"
            /\ exit_status = 1
            /\ k = Len(calls)
            /\ \A j \in 1..(k - 1) : calls[j] # calls[k]
            /\ (sync_choice = "3" /\ calls[k].op \in {"drush", "db_copy"} /\ ~CopyFilesBefore(k)) =>
                 (~HasOp("zip") /\ ~HasOp("copy_files") /\ FilesPost = <<>>)

C14_Witness ==
    /\ sync_choice = "3"
    /\ pc = "exited"
    /\ IsSanitize(calls[Len(calls)])
    /\ ~calls[Len(calls)].ok

\* the major digit found in a status output: the first digit that is
\* followed by a character other than a newline
DetectedMajor(out) ==
    LET S == {k \in 1..(Len(out) - 1) : out[k] \in DigitChars /\ out[k + 1] # "\n"}
    IN  out[CHOOSE k \in S : \A j \in S : k <= j]

\* C15: after validation the version is detected once and the directory
\* custombackups of the destination is then created once, whatever the
\* scope, both before the first sql-dump or zip; the post-copy commands of
\* both branches are those of the version detected by that one call.
C15_DetectOnceThenMkdirOnce ==
    /\ CountOp("find_drupal_version") <= 1
    /\ CountOp("mkdir") <= 1
    /\ ((\E k \in 1..Len(calls) : calls[k].op = "resolve" /\ calls[k].ok) /\ pc # "version") =>
         CountOp("find_drupal_version") = 1
    /\ ((\E k \in 1..Len(calls) : calls[k].op = "find_drupal_version" /\ calls[k].ok) /\ pc # "mkdir") =>
         /\ CountOp("mkdir") = 1
         /\ FirstIdx("find_drupal_version") < FirstIdx("mkdir")
         /\ calls[FirstIdx("mkdir")].arg = <<"mkdir -p ", "/mnt/gfs/", sub, ".", dest, "/custombackups">>
    /\ \A k \in 1..Len(calls) :
         (IsDump(calls[k]) \/ calls[k].op = "zip") =>
             /\ \E j \in 1..(k - 1) : calls[j].op = "mkdir" /\ calls[j].ok
             /\ \E j \in 1..(k - 1) : calls[j].op = "find_drupal_version" /\ calls[j].ok
    /\ (DbPost # <<>> \/ FilesPost # <<>>) =>
         LET m == DetectedMajor(calls[FirstIdx("find_drupal_version")].arg)
         IN  /\ IsPrefix(Args(DbPost), ExpectedDb(m, DB_prod_sync_choice))
             /\ IsPrefix(Args(FilesPost), ExpectedFiles(m))

C15_Witness ==
    /\ sync_choice = "2"
    /\ Returned
    /\ CountOp("mkdir") = 1
    /\ HasOp("zip")
    /\ Len(FilesPost) = 1

\* C16: scope 1 issues no files backup, no copy-files call and no cache
\* clear of the files branch; scope 2 issues no sql-dump, no mode prompt, no
\* database copy and no sql-sanitize; each copy call is issued at most once.
C16_ScopeBoundsCalls ==
    /\ sync_choice = "1" =>
         (~HasOp("zip") /\ ~HasOp("copy_files") /\ FilesPost = <<>>)
    /\ sync_choice = "2" =>
         /\ ~HasOp("input_mode") /\ ~HasOp("db_copy")
         /\ \A k \in 1..Len(calls) : ~IsDump(calls[k]) /\ ~IsSanitize(calls[k])
         /\ DbPost = <<>>
    /\ CountOp("db_copy") <= 1
    /\ CountOp("copy_files") <= 1

C16_Witness ==
    /\ sync_choice = "1"
    /\ Returned
    /\ CountOp("db_copy") = 1
    /\ Len(DbPost) = 2

\* C17: in sanitize mode, whatever the detected version, a run is past the
\* database branch after a successful database copy (in the files branch or
\* returned from main) only if sql-sanitize -y succeeded after that copy.
C17_NoProgressWithoutSanitize ==
    (/\ DB_prod_sync_choice = "1"
     /\ \E k \in 1..Len(calls) : calls[k].op = "db_copy" /\ calls[k].ok
     /\ \/ pc \in {"files_backup", "copy_files", "files_cmds", "done"}
        \/ Returned
        \/ HasOp("zip")) =>
        \E k \in (FirstIdx("db_copy") + 1)..Len(calls) : IsSanitize(calls[k]) /\ calls[k].ok

C17_Witness ==
    /\ DB_prod_sync_choice = "1"
    /\ VersionIs("9")
    /\ pc = "exited"
    /\ raised = "UnboundLocalError"
    /\ calls[Len(calls)].op = "db_copy" /\ calls[Len(calls)].ok
====
